---- MODULE Spec2Model ----
(***************************************************************************)
(* Block-windowed pagination of the events API (INTEARnear events-api      *)
(* HTTP server).  Nine GET handlers, each running one SQL statement over   *)
(* its own table: a CTE `blocks` that selects the first $2 distinct        *)
(* timestamps at or after $1 among the rows passing the WHERE clause, and  *)
(* an outer SELECT that joins the table with `blocks`, filters the rows    *)
(* again and orders them by timestamp.                                     *)
(***************************************************************************)
EXTENDS Integers, Sequences, FiniteSets, TLC

VARIABLES
    store,      \* the tables of the storage
    req,        \* the request in hand
    resp,       \* the response to it
    queries,    \* the statements handed to the storage for it
    window,     \* the rows of `blocks` of its statement
    fetched,    \* the Result of fetch_all for it: "Ok", "Err", or "none"
    caller,     \* a paging caller: where it started and what it has received
    snapshot,   \* the tables as the running statement sees them
    history,    \* the states of the tables since the request arrived
    codec,      \* a value on its way through the decimal codec
    pool        \* the connection pool and the tasks of the requests that share it

vars == <<store, req, resp, queries, window, fetched, caller, snapshot, history, codec, pool>>

\* What a single request over a storage at rest leaves alone.
aside == <<caller, snapshot, history, codec, pool>>

(***************************************************************************)
(* Bounds of the model.                                                    *)
(***************************************************************************)
\* Most rows one table holds.
MaxRows == 2
\* Stored timestamps are 1..MaxTs microseconds after the epoch.
MaxTs == 2
\* Most columns in which a stored row differs from the values requests ask for.
MaxMismatch == 1

(***************************************************************************)
(* Program constants.                                                      *)
(***************************************************************************)
MAX_BLOCKS_PER_REQUEST == 50

default_blocks_per_request == 10

\* `extract(epoch from timestamp) * 1_000_000_000`: seconds to nanoseconds.
NanosPerSecond == 1000000000

\* A stored `timestamp` column counts microseconds.
MicrosPerSecond == 1000000

(***************************************************************************)
(* Option<T>: None is the empty sequence, Some(v) the one-element one.     *)
(* A NULL column value and a NULL bind parameter are None.                 *)
(***************************************************************************)
None == <<>>

Some(v) == <<v>>

IsSome(o) == Len(o) = 1

IsNone(o) == Len(o) = 0

Unwrap(o) == o[1]

Range(s) == {s[i] : i \in DOMAIN s}

(***************************************************************************)
(* Time.  A row's timestamp t is held in microseconds; the SQL compares    *)
(* its epoch in nanoseconds with $1, and chrono's ts_nanoseconds writes    *)
(* the same number as block_timestamp_nanosec.                             *)
(***************************************************************************)
EpochNanos(t) == t * (NanosPerSecond \div MicrosPerSecond)

(***************************************************************************)
(* Text.  A query-string value is a sequence of tokens, "," being the      *)
(* comma; an identifier is one token.  split(',') cuts at every comma and  *)
(* keeps empty pieces, as str::split does.                                 *)
(***************************************************************************)
Comma == ","

RECURSIVE split(_)
split(s) ==
    IF \A i \in DOMAIN s : s[i] # Comma
    THEN <<s>>
    ELSE LET i == CHOOSE k \in DOMAIN s :
                      s[k] = Comma /\ \A j \in 1..(k - 1) : s[j] # Comma
         IN <<SubSeq(s, 1, i - 1)>> \o split(SubSeq(s, i + 1, Len(s)))

\* The text of one identifier.
Text(id) == <<id>>

\* The query-string value listing the identifiers of l, comma-separated.
RECURSIVE CommaList(_)
CommaList(l) ==
    IF Len(l) = 0 THEN <<>>
    ELSE IF Len(l) = 1 THEN <<l[1]>>
    ELSE <<l[1], Comma>> \o CommaList(Tail(l))

(***************************************************************************)
(* The tables.  A table is the sequence of its rows in ingestion order;    *)
(* every row carries its timestamp, its receipt_id and the columns the     *)
(* statements of its handler read.                                         *)
(***************************************************************************)
Tables ==
    {"nft_mint", "nft_transfer", "nft_burn",
     "potlock_donation", "potlock_pot_project_donation", "potlock_pot_donation",
     "trade_pool", "trade_swap", "trade_pool_change"}

\* The values a request asks for, column by column.
Asked(table) ==
    CASE table = "nft_mint" -> [owner_id |-> "alice", contract_id |-> "c1"]
      [] table = "nft_burn" -> [owner_id |-> "alice", contract_id |-> "c1"]
      [] table = "nft_transfer" ->
            [old_owner_id |-> "alice", new_owner_id |-> "bob", contract_id |-> "c1"]
      [] table = "potlock_donation" ->
            [project_id |-> "proj1", donor_id |-> "alice", referrer_id |-> Some("carol")]
      [] table = "potlock_pot_project_donation" ->
            [pot_id |-> "pot1", project_id |-> "proj1", donor_id |-> "alice",
             referrer_id |-> Some("carol")]
      [] table = "potlock_pot_donation" ->
            [pot_id |-> "pot1", donor_id |-> "alice", referrer_id |-> Some("carol")]
      [] table = "trade_pool" -> [pool |-> "pool1", trader |-> "alice"]
      [] table = "trade_swap" ->
            [trader |-> "alice", balance_changes |-> {"wnear", "usdc"}]
      [] table = "trade_pool_change" -> [pool_id |-> "pool1"]

\* The values a column can hold.
Columns(table) ==
    CASE table = "nft_mint" -> [owner_id : {"alice", "bob"}, contract_id : {"c1", "c2"}]
      [] table = "nft_burn" -> [owner_id : {"alice", "bob"}, contract_id : {"c1", "c2"}]
      [] table = "nft_transfer" ->
            [old_owner_id : {"alice", "bob", "carol"},
             new_owner_id : {"alice", "bob", "carol"},
             contract_id : {"c1", "c2"}]
      [] table = "potlock_donation" ->
            [project_id : {"proj1", "proj2"}, donor_id : {"alice", "bob"},
             referrer_id : {Some("carol"), Some("dave"), None}]
      [] table = "potlock_pot_project_donation" ->
            [pot_id : {"pot1", "pot2"}, project_id : {"proj1", "proj2"},
             donor_id : {"alice", "bob"},
             referrer_id : {Some("carol"), Some("dave"), None}]
      [] table = "potlock_pot_donation" ->
            [pot_id : {"pot1", "pot2"}, donor_id : {"alice", "bob"},
             referrer_id : {Some("carol"), Some("dave"), None}]
      [] table = "trade_pool" -> [pool : {"pool1", "pool2"}, trader : {"alice", "bob"}]
      [] table = "trade_swap" ->
            [trader : {"alice", "bob"},
             balance_changes : {{"wnear", "usdc"}, {"wnear", "dai"}, {"usdc", "dai"}}]
      [] table = "trade_pool_change" -> [pool_id : {"pool1", "pool2"}]

Mismatches(table, r) ==
    Cardinality({c \in DOMAIN Asked(table) : r[c] # Asked(table)[c]})

\* The column values of one row of the table.
RowValues(table) == {r \in Columns(table) : Mismatches(table, r) <= MaxMismatch}

\* Timestamps of n rows ingested in order.
Ingested(n) == {ts \in [1..n -> 1..MaxTs] : \A i \in 1..(n - 1) : ts[i] <= ts[i + 1]}

\* The contents a table can have.
Contents(table) ==
    UNION {{[i \in 1..n |-> v[i] @@ [timestamp |-> ts[i], receipt_id |-> i]] :
                v \in [1..n -> RowValues(table)], ts \in Ingested(n)} :
           n \in 0..MaxRows}

(***************************************************************************)
(* The SQL statement.                                                      *)
(***************************************************************************)
\* The rows of a table that pass a WHERE clause are handed on as a set.
\* The comparison with $1 strict: > in place of >=.
DistinctTimestamps_Exclusive(rows, start) ==
    {r.timestamp : r \in {x \in rows : EpochNanos(x.timestamp) > start}}

\* SELECT DISTINCT timestamp as t FROM table WHERE ... AND epoch >= $1
DistinctTimestamps(rows, start) ==
    {r.timestamp : r \in {x \in rows : EpochNanos(x.timestamp) >= start}}

\* ORDER BY t
RECURSIVE OrderBy(_)
OrderBy(ts) ==
    IF ts = {} THEN <<>>
    ELSE LET t == CHOOSE x \in ts : \A y \in ts : x <= y
         IN <<t>> \o OrderBy(ts \ {t})

\* LIMIT $2 left out: the window is never cut.
Limit_Missing(ts, n) == ts

\* LIMIT $2
Limit(ts, n) == SubSeq(ts, 1, IF n < Len(ts) THEN n ELSE Len(ts))

\* ORDER BY t DESC in place of ORDER BY t: the window is the latest timestamps.
Blocks_Latest(rows, start, blocks) ==
    LET ts == OrderBy(DistinctTimestamps(rows, start))
    IN SubSeq(ts, IF blocks < Len(ts) THEN Len(ts) - blocks + 1 ELSE 1, Len(ts))

\* WITH blocks AS (...), over the rows that pass its WHERE
Blocks(rows, start, blocks) == Limit(OrderBy(DistinctTimestamps(rows, start)), blocks)

\* FROM table INNER JOIN blocks ON timestamp = blocks.t, over the rows that pass
\* the outer WHERE
InnerJoin(rows, blocks) == {r \in rows : \E i \in DOMAIN blocks : r.timestamp = blocks[i]}

\* ORDER BY left out of the outer SELECT: the rows come in any order.
OrderByTimestampAsc_Missing(rows) ==
    {s \in [1..Cardinality(rows) -> rows] : \A i, j \in DOMAIN s : i # j => s[i] # s[j]}

\* ORDER BY timestamp ASC: every order of the rows that ascends by timestamp;
\* rows of one timestamp come in whatever order the engine produces.
OrderByTimestampAsc(rows) ==
    {s \in [1..Cardinality(rows) -> rows] :
        /\ \A i, j \in DOMAIN s : i # j => s[i] # s[j]
        /\ \A i, j \in DOMAIN s : i < j => s[i].timestamp <= s[j].timestamp}

Err == [ok |-> FALSE, rows |-> <<>>, blocks |-> <<>>]

\* fetch_all(&state.pg_pool).await: Err when the statement cannot be run (the
\* storage is unreachable, or LIMIT is negative), else the rows it selects.
\* blocks_rows are the rows that pass the WHERE of the blocks CTE, outer_rows
\* those that pass the WHERE of the outer SELECT.
fetch_all(start, blocks, blocks_rows, outer_rows) ==
    {Err} \cup
    (IF blocks < 0 THEN {}
     ELSE LET b == Blocks(blocks_rows, start, blocks)
          IN {[ok |-> TRUE, rows |-> s, blocks |-> b] :
                 s \in OrderByTimestampAsc(InnerJoin(outer_rows, b))})

(***************************************************************************)
(* Requests and responses.                                                 *)
(***************************************************************************)
\* #[serde(default)] on blocks as well: an absent blocks is 0.
PaginationInfo_PlainDefault(query) ==
    [start_block_timestamp_nanosec |->
        IF IsSome(query.start_block_timestamp_nanosec)
        THEN Unwrap(query.start_block_timestamp_nanosec) ELSE 0,
     blocks |->
        IF IsSome(query.blocks) THEN Unwrap(query.blocks) ELSE 0]

\* serde: an absent start_block_timestamp_nanosec is 0, an absent blocks is 10.
PaginationInfo(query) ==
    [start_block_timestamp_nanosec |->
        IF IsSome(query.start_block_timestamp_nanosec)
        THEN Unwrap(query.start_block_timestamp_nanosec) ELSE 0,
     blocks |->
        IF IsSome(query.blocks) THEN Unwrap(query.blocks)
        ELSE default_blocks_per_request]

\* The comparison off by one: >= in place of >.
TooManyBlocks_OffByOne(blocks) == blocks >= MAX_BLOCKS_PER_REQUEST

\* if pagination.blocks > MAX_BLOCKS_PER_REQUEST
TooManyBlocks(blocks) == blocks > MAX_BLOCKS_PER_REQUEST

BadRequestBody == "Blocks per request must be less or equal to 50"

\* chrono::serde::ts_nanoseconds, renamed block_timestamp_nanosec
Json(row) ==
    [f \in (DOMAIN row \ {"timestamp"}) \cup {"block_timestamp_nanosec"} |->
        IF f = "block_timestamp_nanosec" THEN EpochNanos(row.timestamp) ELSE row[f]]

JsonArray(rows) == [i \in DOMAIN rows |-> Json(rows[i])]

\* A response: status 0 stands for no response at all.
HttpResponse(status, text, events) ==
    [status |-> status, text |-> text, events |-> events]

NoRequest == [endpoint |-> "none"]

Request(endpoint, query, filter) ==
    [endpoint |-> endpoint, query |-> query, filter |-> filter,
     start |-> PaginationInfo(query).start_block_timestamp_nanosec,
     blocks |-> PaginationInfo(query).blocks]

\* The statement handed to the storage, with its $1 and $2.
Statement(table, start, blocks) == [table |-> table, start |-> start, limit |-> blocks]

\* The query strings a request can carry.
PaginationQueries ==
    [start_block_timestamp_nanosec :
        {None} \cup {Some(EpochNanos(t)) : t \in 2..MaxTs}
               \cup {Some(EpochNanos(MaxTs) + 1)},
     blocks :
        {None} \cup {Some(b) : b \in (-1)..(MaxTs - 1)}
               \cup {Some(MAX_BLOCKS_PER_REQUEST), Some(MAX_BLOCKS_PER_REQUEST + 1)}]

\* An optional filter field: absent, or the value asked for.
Optional(v) == {None, Some(v)}

\* array @> candidates: the array holds every candidate.
ArrayContains(array, candidates) ==
    \A i \in DOMAIN candidates : \E j \in DOMAIN array : array[j] = candidates[i]

\* jsonb ?& candidates: every candidate is a top-level key of the object.
AllKeysExist(keys, candidates) ==
    \A i \in DOMAIN candidates : \E k \in keys : Text(k) = candidates[i]

\* return HttpResponse::BadRequest().body(...)
BadRequest ==
    /\ resp' = HttpResponse(400, BadRequestBody, <<>>)
    /\ queries' = <<>>
    /\ window' = <<>>
    /\ fetched' = "none"

\* if let Ok(res) = ... { HttpResponse::Ok().json(res) }
\* else { HttpResponse::InternalServerError().finish() }
IfLetOk(out) ==
    resp' = IF out.ok THEN HttpResponse(200, "", JsonArray(out.rows))
            ELSE HttpResponse(500, "", <<>>)

\* let res = ... .unwrap(); HttpResponse::Ok().json(res): unwrap panics on Err
\* and the handler returns no response.
UnwrapOk(out) ==
    resp' = IF out.ok THEN HttpResponse(200, "", JsonArray(out.rows))
            ELSE HttpResponse(0, "", <<>>)

\* The server takes up a request of an endpoint: the task of the request before
\* it has ended, and the requests of one run address the one table that holds rows.
Addressed(table) ==
    /\ req = NoRequest
    /\ \A u \in Tables \ {table} : store[u] = <<>>

(***************************************************************************)
(* /v0/trade                                                               *)
(***************************************************************************)
TradePoolFilter == [pool_id : Optional("pool1"), account_id : Optional("alice")]

trade_pool_blocks_where(filter, r) ==
    /\ (IsNone(filter.pool_id) \/ r.pool = Unwrap(filter.pool_id))
    /\ (IsNone(filter.account_id) \/ r.trader = Unwrap(filter.account_id))

\* The outer WHERE of trade_pool left out: every row of a selected block returns.
trade_pool_rows_where_Missing(filter, r) == TRUE

trade_pool_rows_where(filter, r) ==
    /\ (IsNone(filter.pool_id) \/ r.pool = Unwrap(filter.pool_id))
    /\ (IsNone(filter.account_id) \/ r.trader = Unwrap(filter.account_id))

trade_pool ==
    /\ Addressed("trade_pool")
    /\ \E query \in PaginationQueries, filter \in TradePoolFilter :
         LET pagination == PaginationInfo(query) IN
         /\ req' = Request("trade_pool", query, filter)
         /\ IF TooManyBlocks(pagination.blocks)
            THEN BadRequest
            ELSE \E out \in fetch_all(pagination.start_block_timestamp_nanosec,
                                      pagination.blocks,
                                      {r \in Range(store["trade_pool"]) : trade_pool_blocks_where(filter, r)},
                                      {r \in Range(store["trade_pool"]) : trade_pool_rows_where(filter, r)}) :
                   /\ queries' = <<Statement("trade_pool",
                                             pagination.start_block_timestamp_nanosec,
                                             pagination.blocks)>>
                   /\ window' = out.blocks
                   /\ fetched' = IF out.ok THEN "Ok" ELSE "Err"
                   /\ IfLetOk(out)
    /\ UNCHANGED <<store, aside>>

TradeSwapFilter ==
    [account_id : Optional("alice"),
     involved_token_account_ids :
        {None, Some(CommaList(<<"wnear", "usdc">>)), Some(CommaList(<<"dai">>))}]

\* filter.involved_token_account_ids.as_ref().map(|s| s.split(',')...collect())
involved_tokens(filter) ==
    IF IsSome(filter.involved_token_account_ids)
    THEN Some(split(Unwrap(filter.involved_token_account_ids)))
    ELSE None

trade_swap_blocks_where(filter, r) ==
    /\ (IsNone(filter.account_id) \/ r.trader = Unwrap(filter.account_id))
    /\ (IsNone(involved_tokens(filter))
          \/ AllKeysExist(r.balance_changes, Unwrap(involved_tokens(filter))))

trade_swap_rows_where(filter, r) ==
    /\ (IsNone(filter.account_id) \/ r.trader = Unwrap(filter.account_id))
    /\ (IsNone(involved_tokens(filter))
          \/ AllKeysExist(r.balance_changes, Unwrap(involved_tokens(filter))))

trade_swap ==
    /\ Addressed("trade_swap")
    /\ \E query \in PaginationQueries, filter \in TradeSwapFilter :
         LET pagination == PaginationInfo(query) IN
         /\ req' = Request("trade_swap", query, filter)
         /\ IF TooManyBlocks(pagination.blocks)
            THEN BadRequest
            ELSE \E out \in fetch_all(pagination.start_block_timestamp_nanosec,
                                      pagination.blocks,
                                      {r \in Range(store["trade_swap"]) : trade_swap_blocks_where(filter, r)},
                                      {r \in Range(store["trade_swap"]) : trade_swap_rows_where(filter, r)}) :
                   /\ queries' = <<Statement("trade_swap",
                                             pagination.start_block_timestamp_nanosec,
                                             pagination.blocks)>>
                   /\ window' = out.blocks
                   /\ fetched' = IF out.ok THEN "Ok" ELSE "Err"
                   /\ IfLetOk(out)
    /\ UNCHANGED <<store, aside>>

TradePoolChangeFilter == [pool_id : Optional("pool1")]

trade_pool_change_blocks_where(filter, r) ==
    IsNone(filter.pool_id) \/ r.pool_id = Unwrap(filter.pool_id)

trade_pool_change_rows_where(filter, r) ==
    IsNone(filter.pool_id) \/ r.pool_id = Unwrap(filter.pool_id)

trade_pool_change ==
    /\ Addressed("trade_pool_change")
    /\ \E query \in PaginationQueries, filter \in TradePoolChangeFilter :
         LET pagination == PaginationInfo(query) IN
         /\ req' = Request("trade_pool_change", query, filter)
         /\ IF TooManyBlocks(pagination.blocks)
            THEN BadRequest
            ELSE \E out \in fetch_all(pagination.start_block_timestamp_nanosec,
                                      pagination.blocks,
                                      {r \in Range(store["trade_pool_change"]) : trade_pool_change_blocks_where(filter, r)},
                                      {r \in Range(store["trade_pool_change"]) : trade_pool_change_rows_where(filter, r)}) :
                   /\ queries' = <<Statement("trade_pool_change",
                                             pagination.start_block_timestamp_nanosec,
                                             pagination.blocks)>>
                   /\ window' = out.blocks
                   /\ fetched' = IF out.ok THEN "Ok" ELSE "Err"
                   /\ IfLetOk(out)
    /\ UNCHANGED <<store, aside>>

(***************************************************************************)
(* /v0/potlock                                                             *)
(***************************************************************************)
PotlockDonationFilter ==
    [project_id : Optional("proj1"), donor_id : Optional("alice"),
     referrer_id : Optional("carol")]

\* `referrer_id = $5` is not true of a row whose referrer_id is NULL.
potlock_donation_blocks_where(filter, r) ==
    /\ (IsNone(filter.project_id) \/ r.project_id = Unwrap(filter.project_id))
    /\ (IsNone(filter.donor_id) \/ r.donor_id = Unwrap(filter.donor_id))
    /\ (IsNone(filter.referrer_id)
          \/ (IsSome(r.referrer_id) /\ Unwrap(r.referrer_id) = Unwrap(filter.referrer_id)))

potlock_donation_rows_where(filter, r) ==
    /\ (IsNone(filter.project_id) \/ r.project_id = Unwrap(filter.project_id))
    /\ (IsNone(filter.donor_id) \/ r.donor_id = Unwrap(filter.donor_id))
    /\ (IsNone(filter.referrer_id)
          \/ (IsSome(r.referrer_id) /\ Unwrap(r.referrer_id) = Unwrap(filter.referrer_id)))

potlock_donation ==
    /\ Addressed("potlock_donation")
    /\ \E query \in PaginationQueries, filter \in PotlockDonationFilter :
         LET pagination == PaginationInfo(query) IN
         /\ req' = Request("potlock_donation", query, filter)
         /\ IF TooManyBlocks(pagination.blocks)
            THEN BadRequest
            ELSE \E out \in fetch_all(pagination.start_block_timestamp_nanosec,
                                      pagination.blocks,
                                      {r \in Range(store["potlock_donation"]) : potlock_donation_blocks_where(filter, r)},
                                      {r \in Range(store["potlock_donation"]) : potlock_donation_rows_where(filter, r)}) :
                   /\ queries' = <<Statement("potlock_donation",
                                             pagination.start_block_timestamp_nanosec,
                                             pagination.blocks)>>
                   /\ window' = out.blocks
                   /\ fetched' = IF out.ok THEN "Ok" ELSE "Err"
                   /\ IfLetOk(out)
    /\ UNCHANGED <<store, aside>>

PotlockPotProjectDonationFilter ==
    [pot_id : Optional("pot1"), project_id : Optional("proj1"),
     donor_id : Optional("alice"), referrer_id : Optional("carol")]

potlock_pot_project_donation_blocks_where(filter, r) ==
    /\ (IsNone(filter.pot_id) \/ r.pot_id = Unwrap(filter.pot_id))
    /\ (IsNone(filter.project_id) \/ r.project_id = Unwrap(filter.project_id))
    /\ (IsNone(filter.donor_id) \/ r.donor_id = Unwrap(filter.donor_id))
    /\ (IsNone(filter.referrer_id)
          \/ (IsSome(r.referrer_id) /\ Unwrap(r.referrer_id) = Unwrap(filter.referrer_id)))

potlock_pot_project_donation_rows_where(filter, r) ==
    /\ (IsNone(filter.pot_id) \/ r.pot_id = Unwrap(filter.pot_id))
    /\ (IsNone(filter.project_id) \/ r.project_id = Unwrap(filter.project_id))
    /\ (IsNone(filter.donor_id) \/ r.donor_id = Unwrap(filter.donor_id))
    /\ (IsNone(filter.referrer_id)
          \/ (IsSome(r.referrer_id) /\ Unwrap(r.referrer_id) = Unwrap(filter.referrer_id)))

potlock_pot_project_donation ==
    /\ Addressed("potlock_pot_project_donation")
    /\ \E query \in PaginationQueries, filter \in PotlockPotProjectDonationFilter :
         LET pagination == PaginationInfo(query) IN
         /\ req' = Request("potlock_pot_project_donation", query, filter)
         /\ IF TooManyBlocks(pagination.blocks)
            THEN BadRequest
            ELSE \E out \in fetch_all(pagination.start_block_timestamp_nanosec,
                                      pagination.blocks,
                                      {r \in Range(store["potlock_pot_project_donation"]) : potlock_pot_project_donation_blocks_where(filter, r)},
                                      {r \in Range(store["potlock_pot_project_donation"]) : potlock_pot_project_donation_rows_where(filter, r)}) :
                   /\ queries' = <<Statement("potlock_pot_project_donation",
                                             pagination.start_block_timestamp_nanosec,
                                             pagination.blocks)>>
                   /\ window' = out.blocks
                   /\ fetched' = IF out.ok THEN "Ok" ELSE "Err"
                   /\ IfLetOk(out)
    /\ UNCHANGED <<store, aside>>

PotlockPotDonationFilter ==
    [pot_id : Optional("pot1"), donor_id : Optional("alice"),
     referrer_id : Optional("carol")]

potlock_pot_donation_blocks_where(filter, r) ==
    /\ (IsNone(filter.pot_id) \/ r.pot_id = Unwrap(filter.pot_id))
    /\ (IsNone(filter.donor_id) \/ r.donor_id = Unwrap(filter.donor_id))
    /\ (IsNone(filter.referrer_id)
          \/ (IsSome(r.referrer_id) /\ Unwrap(r.referrer_id) = Unwrap(filter.referrer_id)))

potlock_pot_donation_rows_where(filter, r) ==
    /\ (IsNone(filter.pot_id) \/ r.pot_id = Unwrap(filter.pot_id))
    /\ (IsNone(filter.donor_id) \/ r.donor_id = Unwrap(filter.donor_id))
    /\ (IsNone(filter.referrer_id)
          \/ (IsSome(r.referrer_id) /\ Unwrap(r.referrer_id) = Unwrap(filter.referrer_id)))

potlock_pot_donation ==
    /\ Addressed("potlock_pot_donation")
    /\ \E query \in PaginationQueries, filter \in PotlockPotDonationFilter :
         LET pagination == PaginationInfo(query) IN
         /\ req' = Request("potlock_pot_donation", query, filter)
         /\ IF TooManyBlocks(pagination.blocks)
            THEN BadRequest
            ELSE \E out \in fetch_all(pagination.start_block_timestamp_nanosec,
                                      pagination.blocks,
                                      {r \in Range(store["potlock_pot_donation"]) : potlock_pot_donation_blocks_where(filter, r)},
                                      {r \in Range(store["potlock_pot_donation"]) : potlock_pot_donation_rows_where(filter, r)}) :
                   /\ queries' = <<Statement("potlock_pot_donation",
                                             pagination.start_block_timestamp_nanosec,
                                             pagination.blocks)>>
                   /\ window' = out.blocks
                   /\ fetched' = IF out.ok THEN "Ok" ELSE "Err"
                   /\ IfLetOk(out)
    /\ UNCHANGED <<store, aside>>

(***************************************************************************)
(* /v0/nft: one statement per arm of the match on the filter fields.       *)
(***************************************************************************)
NftMintFilter == [token_account_id : Optional("c1"), account_id : Optional("alice")]

nft_mint_blocks_where(filter, r) ==
    CASE IsNone(filter.token_account_id) /\ IsNone(filter.account_id) -> TRUE
      [] IsSome(filter.token_account_id) /\ IsNone(filter.account_id) ->
            r.contract_id = Unwrap(filter.token_account_id)
      [] IsNone(filter.token_account_id) /\ IsSome(filter.account_id) ->
            r.owner_id = Unwrap(filter.account_id)
      [] IsSome(filter.token_account_id) /\ IsSome(filter.account_id) ->
            /\ r.contract_id = Unwrap(filter.token_account_id)
            /\ r.owner_id = Unwrap(filter.account_id)

nft_mint_rows_where(filter, r) ==
    CASE IsNone(filter.token_account_id) /\ IsNone(filter.account_id) -> TRUE
      [] IsSome(filter.token_account_id) /\ IsNone(filter.account_id) ->
            r.contract_id = Unwrap(filter.token_account_id)
      [] IsNone(filter.token_account_id) /\ IsSome(filter.account_id) ->
            r.owner_id = Unwrap(filter.account_id)
      [] IsSome(filter.token_account_id) /\ IsSome(filter.account_id) ->
            /\ r.contract_id = Unwrap(filter.token_account_id)
            /\ r.owner_id = Unwrap(filter.account_id)

nft_mint ==
    /\ Addressed("nft_mint")
    /\ \E query \in PaginationQueries, filter \in NftMintFilter :
         LET pagination == PaginationInfo(query) IN
         /\ req' = Request("nft_mint", query, filter)
         /\ IF TooManyBlocks(pagination.blocks)
            THEN BadRequest
            ELSE \E out \in fetch_all(pagination.start_block_timestamp_nanosec,
                                      pagination.blocks,
                                      {r \in Range(store["nft_mint"]) : nft_mint_blocks_where(filter, r)},
                                      {r \in Range(store["nft_mint"]) : nft_mint_rows_where(filter, r)}) :
                   /\ queries' = <<Statement("nft_mint",
                                             pagination.start_block_timestamp_nanosec,
                                             pagination.blocks)>>
                   /\ window' = out.blocks
                   /\ fetched' = IF out.ok THEN "Ok" ELSE "Err"
                   /\ UnwrapOk(out)
    /\ UNCHANGED <<store, aside>>

NftTransferFilter ==
    [token_account_id : Optional("c1"), old_owner_id : Optional("alice"),
     new_owner_id : Optional("bob"),
     involved_account_ids :
        {None, Some(CommaList(<<"alice", "bob">>)), Some(CommaList(<<"carol">>))}]

\* involved_account_ids.split(',').map(ToOwned::to_owned).collect()
account_ids(filter) == split(Unwrap(filter.involved_account_ids))

\* ARRAY[old_owner_id, new_owner_id]
Owners(r) == <<Text(r.old_owner_id), Text(r.new_owner_id)>>

nft_transfer_blocks_where(filter, r) ==
    CASE IsNone(filter.token_account_id) /\ IsSome(filter.involved_account_ids) ->
            ArrayContains(Owners(r), account_ids(filter))
      [] IsSome(filter.token_account_id) /\ IsSome(filter.involved_account_ids) ->
            /\ r.contract_id = Unwrap(filter.token_account_id)
            /\ ArrayContains(Owners(r), account_ids(filter))
      [] IsNone(filter.token_account_id) /\ IsNone(filter.old_owner_id)
           /\ IsNone(filter.new_owner_id) /\ IsNone(filter.involved_account_ids) -> TRUE
      [] IsSome(filter.token_account_id) /\ IsNone(filter.old_owner_id)
           /\ IsNone(filter.new_owner_id) /\ IsNone(filter.involved_account_ids) ->
            r.contract_id = Unwrap(filter.token_account_id)
      [] IsNone(filter.token_account_id) /\ IsSome(filter.old_owner_id)
           /\ IsNone(filter.new_owner_id) /\ IsNone(filter.involved_account_ids) ->
            r.old_owner_id = Unwrap(filter.old_owner_id)
      [] IsNone(filter.token_account_id) /\ IsNone(filter.old_owner_id)
           /\ IsSome(filter.new_owner_id) /\ IsNone(filter.involved_account_ids) ->
            r.new_owner_id = Unwrap(filter.new_owner_id)
      [] IsSome(filter.token_account_id) /\ IsSome(filter.old_owner_id)
           /\ IsNone(filter.new_owner_id) /\ IsNone(filter.involved_account_ids) ->
            /\ r.contract_id = Unwrap(filter.token_account_id)
            /\ r.old_owner_id = Unwrap(filter.old_owner_id)
      [] IsSome(filter.token_account_id) /\ IsNone(filter.old_owner_id)
           /\ IsSome(filter.new_owner_id) /\ IsNone(filter.involved_account_ids) ->
            /\ r.contract_id = Unwrap(filter.token_account_id)
            /\ r.new_owner_id = Unwrap(filter.new_owner_id)
      [] IsNone(filter.token_account_id) /\ IsSome(filter.old_owner_id)
           /\ IsSome(filter.new_owner_id) /\ IsNone(filter.involved_account_ids) ->
            /\ r.old_owner_id = Unwrap(filter.old_owner_id)
            /\ r.new_owner_id = Unwrap(filter.new_owner_id)
      [] IsSome(filter.token_account_id) /\ IsSome(filter.old_owner_id)
           /\ IsSome(filter.new_owner_id) /\ IsNone(filter.involved_account_ids) ->
            /\ r.contract_id = Unwrap(filter.token_account_id)
            /\ r.old_owner_id = Unwrap(filter.old_owner_id)
            /\ r.new_owner_id = Unwrap(filter.new_owner_id)

nft_transfer_rows_where(filter, r) ==
    CASE IsNone(filter.token_account_id) /\ IsSome(filter.involved_account_ids) ->
            ArrayContains(Owners(r), account_ids(filter))
      [] IsSome(filter.token_account_id) /\ IsSome(filter.involved_account_ids) ->
            /\ r.contract_id = Unwrap(filter.token_account_id)
            /\ ArrayContains(Owners(r), account_ids(filter))
      [] IsNone(filter.token_account_id) /\ IsNone(filter.old_owner_id)
           /\ IsNone(filter.new_owner_id) /\ IsNone(filter.involved_account_ids) -> TRUE
      [] IsSome(filter.token_account_id) /\ IsNone(filter.old_owner_id)
           /\ IsNone(filter.new_owner_id) /\ IsNone(filter.involved_account_ids) ->
            r.contract_id = Unwrap(filter.token_account_id)
      [] IsNone(filter.token_account_id) /\ IsSome(filter.old_owner_id)
           /\ IsNone(filter.new_owner_id) /\ IsNone(filter.involved_account_ids) ->
            r.old_owner_id = Unwrap(filter.old_owner_id)
      [] IsNone(filter.token_account_id) /\ IsNone(filter.old_owner_id)
           /\ IsSome(filter.new_owner_id) /\ IsNone(filter.involved_account_ids) ->
            r.new_owner_id = Unwrap(filter.new_owner_id)
      [] IsSome(filter.token_account_id) /\ IsSome(filter.old_owner_id)
           /\ IsNone(filter.new_owner_id) /\ IsNone(filter.involved_account_ids) ->
            /\ r.contract_id = Unwrap(filter.token_account_id)
            /\ r.old_owner_id = Unwrap(filter.old_owner_id)
      [] IsSome(filter.token_account_id) /\ IsNone(filter.old_owner_id)
           /\ IsSome(filter.new_owner_id) /\ IsNone(filter.involved_account_ids) ->
            /\ r.contract_id = Unwrap(filter.token_account_id)
            /\ r.new_owner_id = Unwrap(filter.new_owner_id)
      [] IsNone(filter.token_account_id) /\ IsSome(filter.old_owner_id)
           /\ IsSome(filter.new_owner_id) /\ IsNone(filter.involved_account_ids) ->
            /\ r.old_owner_id = Unwrap(filter.old_owner_id)
            /\ r.new_owner_id = Unwrap(filter.new_owner_id)
      [] IsSome(filter.token_account_id) /\ IsSome(filter.old_owner_id)
           /\ IsSome(filter.new_owner_id) /\ IsNone(filter.involved_account_ids) ->
            /\ r.contract_id = Unwrap(filter.token_account_id)
            /\ r.old_owner_id = Unwrap(filter.old_owner_id)
            /\ r.new_owner_id = Unwrap(filter.new_owner_id)

nft_transfer ==
    /\ Addressed("nft_transfer")
    /\ \E query \in PaginationQueries, filter \in NftTransferFilter :
         LET pagination == PaginationInfo(query) IN
         /\ req' = Request("nft_transfer", query, filter)
         /\ IF TooManyBlocks(pagination.blocks)
            THEN BadRequest
            ELSE \E out \in fetch_all(pagination.start_block_timestamp_nanosec,
                                      pagination.blocks,
                                      {r \in Range(store["nft_transfer"]) : nft_transfer_blocks_where(filter, r)},
                                      {r \in Range(store["nft_transfer"]) : nft_transfer_rows_where(filter, r)}) :
                   /\ queries' = <<Statement("nft_transfer",
                                             pagination.start_block_timestamp_nanosec,
                                             pagination.blocks)>>
                   /\ window' = out.blocks
                   /\ fetched' = IF out.ok THEN "Ok" ELSE "Err"
                   /\ UnwrapOk(out)
    /\ UNCHANGED <<store, aside>>

NftBurnFilter == [token_account_id : Optional("c1"), account_id : Optional("alice")]

nft_burn_blocks_where(filter, r) ==
    CASE IsNone(filter.token_account_id) /\ IsNone(filter.account_id) -> TRUE
      [] IsSome(filter.token_account_id) /\ IsNone(filter.account_id) ->
            r.contract_id = Unwrap(filter.token_account_id)
      [] IsNone(filter.token_account_id) /\ IsSome(filter.account_id) ->
            r.owner_id = Unwrap(filter.account_id)
      [] IsSome(filter.token_account_id) /\ IsSome(filter.account_id) ->
            /\ r.contract_id = Unwrap(filter.token_account_id)
            /\ r.owner_id = Unwrap(filter.account_id)

\* A slip between the arms: the outer WHERE of the token_account_id arm
\* compares owner_id.
nft_burn_rows_where_Slip(filter, r) ==
    CASE IsNone(filter.token_account_id) /\ IsNone(filter.account_id) -> TRUE
      [] IsSome(filter.token_account_id) /\ IsNone(filter.account_id) ->
            r.owner_id = Unwrap(filter.token_account_id)
      [] IsNone(filter.token_account_id) /\ IsSome(filter.account_id) ->
            r.owner_id = Unwrap(filter.account_id)
      [] IsSome(filter.token_account_id) /\ IsSome(filter.account_id) ->
            /\ r.contract_id = Unwrap(filter.token_account_id)
            /\ r.owner_id = Unwrap(filter.account_id)

nft_burn_rows_where(filter, r) ==
    CASE IsNone(filter.token_account_id) /\ IsNone(filter.account_id) -> TRUE
      [] IsSome(filter.token_account_id) /\ IsNone(filter.account_id) ->
            r.contract_id = Unwrap(filter.token_account_id)
      [] IsNone(filter.token_account_id) /\ IsSome(filter.account_id) ->
            r.owner_id = Unwrap(filter.account_id)
      [] IsSome(filter.token_account_id) /\ IsSome(filter.account_id) ->
            /\ r.contract_id = Unwrap(filter.token_account_id)
            /\ r.owner_id = Unwrap(filter.account_id)

nft_burn ==
    /\ Addressed("nft_burn")
    /\ \E query \in PaginationQueries, filter \in NftBurnFilter :
         LET pagination == PaginationInfo(query) IN
         /\ req' = Request("nft_burn", query, filter)
         /\ IF TooManyBlocks(pagination.blocks)
            THEN BadRequest
            ELSE \E out \in fetch_all(pagination.start_block_timestamp_nanosec,
                                      pagination.blocks,
                                      {r \in Range(store["nft_burn"]) : nft_burn_blocks_where(filter, r)},
                                      {r \in Range(store["nft_burn"]) : nft_burn_rows_where(filter, r)}) :
                   /\ queries' = <<Statement("nft_burn",
                                             pagination.start_block_timestamp_nanosec,
                                             pagination.blocks)>>
                   /\ window' = out.blocks
                   /\ fetched' = IF out.ok THEN "Ok" ELSE "Err"
                   /\ UnwrapOk(out)
    /\ UNCHANGED <<store, aside>>

(***************************************************************************)
(* The end of a request: the response, if any, has gone to the client and  *)
(* the task of the request is over; the server keeps nothing of it.        *)
(***************************************************************************)
NoResponse == HttpResponse(0, "", <<>>)

\* No caller is paging, no statement is running, the codec is idle, no task
\* shares the pool.
NoCaller == [endpoint |-> "none"]

NoSnapshot == <<>>

NoCodec == [form |-> "none"]

NoPool == [holders |-> {}, tasks |-> <<>>]

Served ==
    /\ req # NoRequest
    /\ req' = NoRequest
    /\ resp' = NoResponse
    /\ queries' = <<>>
    /\ window' = <<>>
    /\ fetched' = "none"
    /\ UNCHANGED <<store, aside>>

(***************************************************************************)
(* The specification.                                                      *)
(***************************************************************************)
Init ==
    /\ \E table \in Tables : \E rows \in Contents(table) :
         store = [u \in Tables |-> IF u = table THEN rows ELSE <<>>]
    /\ req = NoRequest
    /\ resp = NoResponse
    /\ queries = <<>>
    /\ window = <<>>
    /\ fetched = "none"
    /\ caller = NoCaller
    /\ snapshot = NoSnapshot
    /\ history = <<>>
    /\ codec = NoCodec
    /\ pool = NoPool

Next ==
    \/ nft_mint
    \/ nft_transfer
    \/ nft_burn
    \/ potlock_donation
    \/ potlock_pot_project_donation
    \/ potlock_pot_donation
    \/ trade_pool
    \/ trade_swap
    \/ trade_pool_change
    \/ Served

Spec == Init /\ [][Next]_vars

(***************************************************************************)
(* The vocabulary of the claims: what the filter of a request asks of a    *)
(* row.  An equality field asks for its column to equal the value; a       *)
(* membership field lists candidates, comma-separated, and asks for any    *)
(* one of them among the row's values; the fields supplied are conjoined.  *)
(***************************************************************************)
MembershipFields == {"involved_account_ids", "involved_token_account_ids"}

Supplied(filter) == {f \in DOMAIN filter : IsSome(filter[f])}

Column(endpoint, field) ==
    CASE field = "token_account_id" -> "contract_id"
      [] field = "account_id" /\ endpoint \in {"nft_mint", "nft_burn"} -> "owner_id"
      [] field = "account_id" /\ endpoint \in {"trade_pool", "trade_swap"} -> "trader"
      [] field = "pool_id" /\ endpoint = "trade_pool" -> "pool"
      [] OTHER -> field

Candidates(value) == Range(split(value))

FieldHolds(endpoint, field, value, r) ==
    CASE field = "involved_account_ids" ->
            \E c \in Candidates(value) :
                c \in {Text(r.old_owner_id), Text(r.new_owner_id)}
      [] field = "involved_token_account_ids" ->
            \E c \in Candidates(value) : \E k \in r.balance_changes : c = Text(k)
      [] field = "referrer_id" -> r.referrer_id = Some(value)
      [] OTHER -> r[Column(endpoint, field)] = value

Satisfies(endpoint, filter, r) ==
    \A f \in Supplied(filter) : FieldHolds(endpoint, f, Unwrap(filter[f]), r)

\* The request in hand was answered 200 with a JSON array.
Succeeded == req # NoRequest /\ resp.status = 200

\* The rows of the table the request reads.
Stored == IF req = NoRequest THEN {} ELSE Range(store[req.endpoint])

\* The rows at or after the cursor that satisfy the filter of the request.
Qualifying ==
    {r \in Stored : /\ EpochNanos(r.timestamp) >= req.start
                    /\ Satisfies(req.endpoint, req.filter, r)}

Returned == Range(resp.events)

ReturnedTimestamps == {e.block_timestamp_nanosec : e \in Returned}

Min(a, b) == IF a < b THEN a ELSE b

(***************************************************************************)
(* C1.  The window the statement selects is exactly the `blocks` smallest  *)
(* distinct timestamps among the rows at or after start (inclusive) that   *)
(* satisfy the filter; all of them when there are fewer than `blocks`.     *)
(***************************************************************************)
C1_WindowIsSmallestQualifying ==
    Succeeded =>
        LET W == Range(window)
            Q == {r.timestamp : r \in Qualifying}
        IN /\ W \subseteq Q
           /\ Cardinality(W) = Min(req.blocks, Cardinality(Q))
           /\ \A w \in W : \A q \in Q \ W : w < q

(***************************************************************************)
(* C2.  No block is returned partially: every stored row whose timestamp   *)
(* is in the selected window and which satisfies the filter is in the      *)
(* response.                                                               *)
(***************************************************************************)
C2_NoPartialBlock ==
    Succeeded =>
        \A r \in Stored :
            (r.timestamp \in Range(window) /\ Satisfies(req.endpoint, req.filter, r))
                => Json(r) \in Returned

(***************************************************************************)
(* C3.  Every returned row has its timestamp in the selected window and    *)
(* satisfies the filter of the request itself.                             *)
(***************************************************************************)
C3_OnlyMatchingRowsOfWindow ==
    Succeeded =>
        \A e \in Returned :
            \E r \in Stored :
                /\ Json(r) = e
                /\ r.timestamp \in Range(window)
                /\ Satisfies(req.endpoint, req.filter, r)

(***************************************************************************)
(* C4.  The distinct timestamps of a response are at most `blocks`, and    *)
(* every returned row has a timestamp >= start_block_timestamp_nanosec.    *)
(***************************************************************************)
C4_AtMostBlocksFromStart ==
    Succeeded =>
        /\ Cardinality(ReturnedTimestamps) <= req.blocks
        /\ \A e \in Returned : e.block_timestamp_nanosec >= req.start

\* A response cut by `blocks`: it holds `blocks` timestamps and a later block
\* with a row that satisfies the filter is left out.
C4_Witness ==
    /\ Succeeded
    /\ req.blocks >= 1
    /\ Cardinality(ReturnedTimestamps) = req.blocks
    /\ \E r \in Qualifying : \A t \in ReturnedTimestamps : EpochNanos(r.timestamp) > t

(***************************************************************************)
(* C5.  The rows of a response are in non-decreasing timestamp order.      *)
(***************************************************************************)
C5_Ascending ==
    Succeeded =>
        \A i, j \in DOMAIN resp.events :
            i < j => resp.events[i].block_timestamp_nanosec
                        <= resp.events[j].block_timestamp_nanosec

\* A response holding rows of two blocks.
C5_Witness ==
    /\ Succeeded
    /\ Cardinality(ReturnedTimestamps) >= 2

(***************************************************************************)
(* C6.  With exactly one filter field present the response is the          *)
(* response to the same cursor with no filter, restricted to the rows      *)
(* that match the field.                                                   *)
(***************************************************************************)
blocks_where(endpoint, filter, r) ==
    CASE endpoint = "nft_mint" -> nft_mint_blocks_where(filter, r)
      [] endpoint = "nft_transfer" -> nft_transfer_blocks_where(filter, r)
      [] endpoint = "nft_burn" -> nft_burn_blocks_where(filter, r)
      [] endpoint = "potlock_donation" -> potlock_donation_blocks_where(filter, r)
      [] endpoint = "potlock_pot_project_donation" ->
            potlock_pot_project_donation_blocks_where(filter, r)
      [] endpoint = "potlock_pot_donation" -> potlock_pot_donation_blocks_where(filter, r)
      [] endpoint = "trade_pool" -> trade_pool_blocks_where(filter, r)
      [] endpoint = "trade_swap" -> trade_swap_blocks_where(filter, r)
      [] endpoint = "trade_pool_change" -> trade_pool_change_blocks_where(filter, r)

rows_where(endpoint, filter, r) ==
    CASE endpoint = "nft_mint" -> nft_mint_rows_where(filter, r)
      [] endpoint = "nft_transfer" -> nft_transfer_rows_where(filter, r)
      [] endpoint = "nft_burn" -> nft_burn_rows_where(filter, r)
      [] endpoint = "potlock_donation" -> potlock_donation_rows_where(filter, r)
      [] endpoint = "potlock_pot_project_donation" ->
            potlock_pot_project_donation_rows_where(filter, r)
      [] endpoint = "potlock_pot_donation" -> potlock_pot_donation_rows_where(filter, r)
      [] endpoint = "trade_pool" -> trade_pool_rows_where(filter, r)
      [] endpoint = "trade_swap" -> trade_swap_rows_where(filter, r)
      [] endpoint = "trade_pool_change" -> trade_pool_change_rows_where(filter, r)

\* The window and the rows the statement of the endpoint selects.
WindowOf(endpoint, filter, start, blocks) ==
    Blocks({r \in Range(store[endpoint]) : blocks_where(endpoint, filter, r)}, start, blocks)

Select(endpoint, filter, start, blocks) ==
    InnerJoin({r \in Range(store[endpoint]) : rows_where(endpoint, filter, r)},
              WindowOf(endpoint, filter, start, blocks))

NoFilter(filter) == [f \in DOMAIN filter |-> None]

\* The response to the same cursor with no filter, restricted to the rows that
\* satisfy the filter of the request.
NoFilterRestricted ==
    {Json(r) : r \in {x \in Select(req.endpoint, NoFilter(req.filter), req.start, req.blocks) :
                         Satisfies(req.endpoint, req.filter, x)}}

OneFieldPresent == Succeeded /\ Cardinality(Supplied(req.filter)) = 1

C6_NoFilterRestriction ==
    OneFieldPresent => Returned = NoFilterRestricted

\* C6 as amended: the restricted no-filter response is within the filtered
\* response, which may hold later blocks besides, and the two are equal when
\* `blocks` does not cut the no-filter window; a membership field lists one
\* candidate.
OneCandidate ==
    \A f \in Supplied(req.filter) \cap MembershipFields :
        Len(split(Unwrap(req.filter[f]))) = 1

NoFilterWindowCut ==
    Len(WindowOf(req.endpoint, NoFilter(req.filter), req.start, req.blocks)) = req.blocks

C6_NoFilterRestrictionWithin ==
    (OneFieldPresent /\ OneCandidate) =>
        /\ NoFilterRestricted \subseteq Returned
        /\ \A e \in Returned : Satisfies(req.endpoint, req.filter, e)
        /\ ~NoFilterWindowCut => Returned = NoFilterRestricted

\* One field present, and the filtered response holds a row of a later block
\* that the no-filter response to the same cursor does not reach.
C6_Witness ==
    /\ OneFieldPresent
    /\ OneCandidate
    /\ NoFilterRestricted # Returned
    /\ Returned # {}

(***************************************************************************)
(* C7.  Any subset of the filter fields may be supplied together and the   *)
(* returned rows satisfy every supplied field; on nft_transfer a row       *)
(* returned for involved_account_ids with old_owner_id / new_owner_id      *)
(* also equals the supplied old_owner_id / new_owner_id.                   *)
(***************************************************************************)
C7_EverySuppliedFieldHolds ==
    Succeeded =>
        \A e \in Returned : \A f \in Supplied(req.filter) :
            FieldHolds(req.endpoint, f, Unwrap(req.filter[f]), e)

(***************************************************************************)
(* C8.  On nft_transfer involved_account_ids matches a row when either     *)
(* old_owner_id or new_owner_id is one of the candidates, and no other     *)
(* row: with no other field and a window that `blocks` does not cut, the   *)
(* response is the rows at or after start with an owner among the          *)
(* candidates.                                                             *)
(***************************************************************************)
OnlyField(field) == Succeeded /\ Supplied(req.filter) = {field}

Uncut == req.blocks = MAX_BLOCKS_PER_REQUEST

C8_AnyInvolvedAccount ==
    (OnlyField("involved_account_ids") /\ Uncut) =>
        Returned =
            {Json(r) : r \in {x \in Stored :
                /\ EpochNanos(x.timestamp) >= req.start
                /\ \E c \in Candidates(Unwrap(req.filter.involved_account_ids)) :
                     c \in {Text(x.old_owner_id), Text(x.new_owner_id)}}}

(***************************************************************************)
(* C9.  On trade_swap involved_token_account_ids matches a row when the    *)
(* keys of its balance_changes hold any one of the candidates: a row that  *)
(* holds only some of them is still returned.                              *)
(***************************************************************************)
C9_AnyInvolvedToken ==
    (OnlyField("involved_token_account_ids") /\ Uncut) =>
        Returned =
            {Json(r) : r \in {x \in Stored :
                /\ EpochNanos(x.timestamp) >= req.start
                /\ \E c \in Candidates(Unwrap(req.filter.involved_token_account_ids)) :
                     \E k \in x.balance_changes : c = Text(k)}}

(***************************************************************************)
(* C10.  blocks = 50 is accepted; blocks > 50 ends with 400 and the        *)
(* message, with no statement handed to the storage and the value not      *)
(* clamped: an accepted request hands its own blocks to the storage.       *)
(***************************************************************************)
C10_BlocksCeiling ==
    req # NoRequest =>
        /\ req.blocks > MAX_BLOCKS_PER_REQUEST =>
              /\ resp = HttpResponse(400, BadRequestBody, <<>>)
              /\ queries = <<>>
        /\ req.blocks <= MAX_BLOCKS_PER_REQUEST =>
              /\ resp.status # 400
              /\ queries = <<Statement(req.endpoint, req.start, req.blocks)>>

\* A request with blocks = 51 was answered.
C10_Witness ==
    /\ req # NoRequest
    /\ req.blocks = MAX_BLOCKS_PER_REQUEST + 1
    /\ resp.status = 400

(***************************************************************************)
(* C11.  When the storage query of a request fails, the request ends with  *)
(* a server-error response with an empty body and no event data, on every  *)
(* endpoint; it is never left unanswered.                                  *)
(***************************************************************************)
QueryFailed == req # NoRequest /\ fetched = "Err"

C11_StorageFailureIsServerError ==
    QueryFailed => resp = HttpResponse(500, "", <<>>)

(***************************************************************************)
(* C12.  An empty array signals exhaustion: when a request that passed     *)
(* validation is answered with an empty array, no stored row at or after   *)
(* its start satisfies its filter.                                         *)
(***************************************************************************)
C12_EmptyMeansExhausted ==
    (Succeeded /\ resp.events = <<>>) => Qualifying = {}

(***************************************************************************)
(* One handler on one request.  The nine handlers differ in their table,   *)
(* their WHERE clauses and what they do with the Result of fetch_all; the  *)
(* handler of an endpoint, on a given query string and over given rows of  *)
(* its table, is the one below.                                            *)
(***************************************************************************)
NftEndpoints == {"nft_mint", "nft_transfer", "nft_burn"}

Filters(endpoint) ==
    CASE endpoint = "nft_mint" -> NftMintFilter
      [] endpoint = "nft_transfer" -> NftTransferFilter
      [] endpoint = "nft_burn" -> NftBurnFilter
      [] endpoint = "potlock_donation" -> PotlockDonationFilter
      [] endpoint = "potlock_pot_project_donation" -> PotlockPotProjectDonationFilter
      [] endpoint = "potlock_pot_donation" -> PotlockPotDonationFilter
      [] endpoint = "trade_pool" -> TradePoolFilter
      [] endpoint = "trade_swap" -> TradeSwapFilter
      [] endpoint = "trade_pool_change" -> TradePoolChangeFilter

\* What the handler of the endpoint does with the Result of fetch_all.
Respond(endpoint, out) ==
    IF endpoint \in NftEndpoints THEN UnwrapOk(out) ELSE IfLetOk(out)

handler(endpoint, query, filter, rows) ==
    LET pagination == PaginationInfo(query) IN
    /\ req' = Request(endpoint, query, filter)
    /\ IF TooManyBlocks(pagination.blocks)
       THEN BadRequest
       ELSE \E out \in fetch_all(pagination.start_block_timestamp_nanosec,
                                 pagination.blocks,
                                 {r \in Range(rows) : blocks_where(endpoint, filter, r)},
                                 {r \in Range(rows) : rows_where(endpoint, filter, r)}) :
              /\ queries' = <<Statement(endpoint,
                                        pagination.start_block_timestamp_nanosec,
                                        pagination.blocks)>>
              /\ window' = out.blocks
              /\ fetched' = IF out.ok THEN "Ok" ELSE "Err"
              /\ Respond(endpoint, out)

\* Every step of a handler of Next is a step of `handler`.
HandlersAreHandler ==
    [][IF req' = NoRequest THEN TRUE
       ELSE handler(req'.endpoint, req'.query, req'.filter, store[req'.endpoint])]_vars

(***************************************************************************)
(* A caller that pages.  The server keeps no cursor: the caller makes the  *)
(* next request from the last response, with the same filter and the same  *)
(* blocks, its start the greatest timestamp of the response, or the start  *)
(* it had when the response held no event.  The storage is at rest.        *)
(***************************************************************************)
\* Most rows, and the greatest timestamp, of a table that is paged over.
MaxPagedRows == 3

MaxPagedTs == 3

\* Most rows of such a table that differ from the values requests ask for.
MaxPagedMismatch == 1

PagedContents(table) ==
    UNION {{[i \in 1..n |-> v[i] @@ [timestamp |-> ts[i], receipt_id |-> i]] :
                v \in {w \in [1..n -> RowValues(table)] :
                          Cardinality({i \in 1..n : Mismatches(table, w[i]) > 0})
                              <= MaxPagedMismatch},
                ts \in {t \in [1..n -> 1..MaxPagedTs] :
                           \A i \in 1..(n - 1) : t[i] <= t[i + 1]}} :
           n \in 0..MaxPagedRows}

\* The first request of a paging caller: blocks within 1..50.
PagedQueries ==
    {q \in [start_block_timestamp_nanosec : {None, Some(EpochNanos(2))},
            blocks : {Some(1), Some(2)}] :
        PaginationInfo(q).blocks \in 1..MAX_BLOCKS_PER_REQUEST}

Max(ts) == CHOOSE t \in ts : \A u \in ts : u <= t

\* The start of the request that follows a response.
NextStart(response, start) ==
    IF response.status = 200 /\ response.events # <<>>
    THEN Max({response.events[i].block_timestamp_nanosec : i \in DOMAIN response.events})
    ELSE start

\* A caller about to make its first request.
Callers(endpoint) ==
    {[endpoint |-> endpoint, filter |-> filter, blocks |-> query.blocks,
      origin |-> PaginationInfo(query).start_block_timestamp_nanosec,
      start |-> PaginationInfo(query).start_block_timestamp_nanosec,
      received |-> {}] :
        query \in PagedQueries, filter \in Filters(endpoint)}

PagingInit ==
    /\ store = [u \in Tables |-> <<>>]
    /\ req = NoRequest
    /\ resp = NoResponse
    /\ queries = <<>>
    /\ window = <<>>
    /\ fetched = "none"
    /\ caller = NoCaller
    /\ snapshot = NoSnapshot
    /\ history = <<>>
    /\ codec = NoCodec
    /\ pool = NoPool

\* The storage as the caller finds it, and the caller with its first request.
Arrive ==
    /\ caller = NoCaller
    /\ \E table \in Tables : \E rows \in PagedContents(table) :
         /\ store' = [u \in Tables |-> IF u = table THEN rows ELSE <<>>]
         /\ caller' \in Callers(table)
    /\ UNCHANGED <<req, resp, queries, window, fetched, snapshot, history, codec, pool>>

\* The caller makes its next request and takes in the response.
Page ==
    /\ caller # NoCaller
    /\ handler(caller.endpoint,
               [start_block_timestamp_nanosec |-> Some(caller.start),
                blocks |-> caller.blocks],
               caller.filter, store[caller.endpoint])
    /\ caller' = [caller EXCEPT !.start = NextStart(resp', @),
                                !.received = @ \cup Range(resp'.events)]
    /\ UNCHANGED <<store, snapshot, history, codec, pool>>

PagingNext == Arrive \/ Page

PagingSpec == PagingInit /\ [][PagingNext]_vars

(***************************************************************************)
(* C13.  A caller that pages over a storage at rest, with a fixed filter   *)
(* and a fixed blocks in 1..50, each next start the greatest timestamp of  *)
(* the last response, in the end has received every stored row at or after *)
(* its first start that satisfies the filter, and in the end receives an   *)
(* empty array.  The storage being at rest, a response that leaves the     *)
(* start where it was is the response to every later request as well: by   *)
(* then the caller has received every such row and the response is empty.  *)
(***************************************************************************)
Paging == caller # NoCaller

\* The rows the caller is to receive.
Due ==
    {r \in Range(store[caller.endpoint]) :
        /\ EpochNanos(r.timestamp) >= caller.origin
        /\ Satisfies(caller.endpoint, caller.filter, r)}

AllReceived == Paging /\ {Json(r) : r \in Due} \subseteq caller.received

\* The last response leaves the start of the caller where it was.
Stalled == Paging /\ Succeeded /\ caller.start = req.start

C13_PagingExhausts ==
    Stalled => (AllReceived /\ resp.events = <<>>)

\* C13 as amended: with blocks of 2 or more (a membership field listing one
\* candidate) every response of `blocks` timestamps moves the start forward, so
\* that in the end a response holds fewer; by then the caller has received
\* every such row, and that response is what tells it so, not an empty array:
\* the block at the start is returned again on every page.
PagesByTwoOrMore ==
    /\ Paging
    /\ PaginationInfo([start_block_timestamp_nanosec |-> None,
                       blocks |-> caller.blocks]).blocks >= 2
    /\ \A f \in Supplied(caller.filter) \cap MembershipFields :
          Len(split(Unwrap(caller.filter[f]))) = 1

ShortResponse == Succeeded /\ Cardinality(ReturnedTimestamps) < req.blocks

C13_PagingReceivesAll ==
    (PagesByTwoOrMore /\ Succeeded) =>
        /\ caller.start >= req.start
        /\ Stalled => ShortResponse
        /\ ShortResponse => AllReceived
        /\ (Stalled /\ Due # {}) => resp.events # <<>>

\* The caller has received three blocks, two at a time, over more than one page.
C13_Witness ==
    /\ PagesByTwoOrMore
    /\ Stalled
    /\ req.blocks = 2
    /\ caller.start > caller.origin
    /\ Cardinality({e.block_timestamp_nanosec : e \in caller.received}) = 3

(***************************************************************************)
(* C14.  The same request made again over the same storage is answered     *)
(* with the same sequence of events, the rows of one timestamp in the same *)
(* order.                                                                  *)
(***************************************************************************)
\* What fetch_all can return for the statement of the request in hand.
Reissued ==
    fetch_all(req.start, req.blocks,
              {r \in Stored : blocks_where(req.endpoint, req.filter, r)},
              {r \in Stored : rows_where(req.endpoint, req.filter, r)})

C14_ReissueIdentical ==
    Succeeded => \A out \in Reissued : out.ok => JsonArray(out.rows) = resp.events

(***************************************************************************)
(* C15.  When no stored row at or after the start satisfies the filter and *)
(* the storage query succeeds, the request ends with status 200 and an     *)
(* empty array, never with an error.                                       *)
(***************************************************************************)
QuerySucceeded == req # NoRequest /\ fetched = "Ok"

C15_NothingQualifyingIsEmptyOk ==
    (QuerySucceeded /\ Qualifying = {}) => resp = HttpResponse(200, "", <<>>)

(***************************************************************************)
(* C16.  On every endpoint and in every branch of its filter the WHERE     *)
(* that selects the window and the WHERE that selects the returned rows    *)
(* pass the same rows, so that every timestamp of the window is on a       *)
(* returned row: the response holds as many distinct timestamps as the     *)
(* window.                                                                 *)
(***************************************************************************)
WindowNanos == {EpochNanos(window[i]) : i \in DOMAIN window}

C16_SamePredicateForWindowAndRows ==
    Succeeded =>
        /\ \A r \in Stored :
              blocks_where(req.endpoint, req.filter, r)
                  <=> rows_where(req.endpoint, req.filter, r)
        /\ ReturnedTimestamps = WindowNanos
        /\ Cardinality(ReturnedTimestamps) = Len(window)

\* A filtered request whose window holds a block of which one row is returned
\* and another is not.
C16_Witness ==
    /\ Succeeded
    /\ Supplied(req.filter) # {}
    /\ \E r, q \in Stored :
          /\ r.timestamp = q.timestamp
          /\ r.timestamp \in Range(window)
          /\ Json(r) \in Returned
          /\ Json(q) \notin Returned

(***************************************************************************)
(* C17.  A request that leaves out `blocks` is answered as the same        *)
(* request with blocks = 10, and one that leaves out                       *)
(* start_block_timestamp_nanosec as the same request with start = 0: the   *)
(* handler works on the same start and blocks, hands the same statement to *)
(* the storage, and its response is one the statement of the spelled-out   *)
(* request produces.                                                       *)
(***************************************************************************)
SpelledOut(query) ==
    [start_block_timestamp_nanosec |->
        IF IsNone(query.start_block_timestamp_nanosec)
        THEN Some(0) ELSE query.start_block_timestamp_nanosec,
     blocks |-> IF IsNone(query.blocks) THEN Some(10) ELSE query.blocks]

C17_OmittedAsDefault ==
    req # NoRequest =>
        LET start == Unwrap(SpelledOut(req.query).start_block_timestamp_nanosec)
            blocks == Unwrap(SpelledOut(req.query).blocks)
        IN /\ req.start = start
           /\ req.blocks = blocks
           /\ queries # <<>> => queries = <<Statement(req.endpoint, start, blocks)>>
           /\ Succeeded =>
                 \E out \in fetch_all(start, blocks,
                        {r \in Stored : blocks_where(req.endpoint, req.filter, r)},
                        {r \in Stored : rows_where(req.endpoint, req.filter, r)}) :
                    out.ok /\ resp.events = JsonArray(out.rows)

\* A request with neither parameter, answered with the rows of two blocks.
C17_Witness ==
    /\ Succeeded
    /\ IsNone(req.query.blocks)
    /\ IsNone(req.query.start_block_timestamp_nanosec)
    /\ Cardinality(ReturnedTimestamps) = 2

(***************************************************************************)
(* The decimal codec: Balance, OptionalBalance and VecBalance wrap a       *)
(* BigDecimal, an Option of one and a Vec of them.  A BigDecimal is an     *)
(* unscaled integer and a scale, standing for int_val / 10^scale; a text   *)
(* is the sequence of its characters; a JSON value on the wire is a        *)
(* string, null or an array.                                               *)
(***************************************************************************)
\* Greatest magnitude of an unscaled integer, and most values of a sequence.
MaxUnscaled == 12

MaxBalances == 2

\* The scales of the values: from 10 for 1 (scale -1) to 0.001 (scale 3).
Scales == (-1)..3

BigDecimal(int_val, scale) == [int_val |-> int_val, scale |-> scale]

BigDecimals == {BigDecimal(i, k) : i \in (-MaxUnscaled)..MaxUnscaled, k \in Scales}

Digits == <<"0", "1", "2", "3", "4", "5", "6", "7", "8", "9">>

IsDigit(c) == \E i \in DOMAIN Digits : Digits[i] = c

DigitValue(c) == (CHOOSE i \in DOMAIN Digits : Digits[i] = c) - 1

Abs(n) == IF n < 0 THEN -n ELSE n

Repeat(c, n) == [i \in 1..n |-> c]

RECURSIVE Pow10(_)
Pow10(n) == IF n <= 0 THEN 1 ELSE 10 * Pow10(n - 1)

\* BigInt::to_str_radix(10) of a magnitude
RECURSIVE to_str_radix(_)
to_str_radix(n) ==
    IF n < 10 THEN <<Digits[n + 1]>>
    ELSE to_str_radix(n \div 10) \o <<Digits[(n % 10) + 1]>>

\* Display for BigDecimal: the digits split at the decimal point, zeros put in
\* front of a fraction and behind an integer, the sign first.
to_string(d) ==
    LET abs_int == to_str_radix(Abs(d.int_val))
        len == Len(abs_int)
        before == IF d.scale >= len THEN <<"0">>
                  ELSE IF d.scale < 0 THEN abs_int \o Repeat("0", -d.scale)
                  ELSE SubSeq(abs_int, 1, len - d.scale)
        after == IF d.scale >= len THEN Repeat("0", d.scale - len) \o abs_int
                 ELSE IF d.scale < 0 THEN <<>>
                 ELSE SubSeq(abs_int, len - d.scale + 1, len)
        complete == IF after # <<>> THEN before \o <<".">> \o after ELSE before
    IN IF d.int_val < 0 THEN <<"-">> \o complete ELSE complete

\* Result<T, E>
ParseErr == [ok |-> FALSE]

Parsed(v) == [ok |-> TRUE, value |-> v]

\* str::find: the first place of one of the characters
Find(s, chars) ==
    IF \E i \in DOMAIN s : s[i] \in chars
    THEN Some(CHOOSE i \in DOMAIN s : s[i] \in chars /\ \A j \in 1..(i - 1) : s[j] \notin chars)
    ELSE None

RECURSIVE ParseDigits(_)
ParseDigits(s) ==
    IF Len(s) = 0 THEN 0
    ELSE ParseDigits(SubSeq(s, 1, Len(s) - 1)) * 10 + DigitValue(s[Len(s)])

\* BigInt::from_str_radix(_, 10), i64::from_str: a sign or none, then digits
ParseInteger(s) ==
    LET signed == Len(s) > 0 /\ s[1] \in {"-", "+"}
        body == IF signed THEN Tail(s) ELSE s
    IN IF Len(body) = 0 \/ \E i \in DOMAIN body : ~IsDigit(body[i])
       THEN ParseErr
       ELSE Parsed(IF signed /\ s[1] = "-" THEN -ParseDigits(body) ELSE ParseDigits(body))

\* BigDecimal::from_str: the exponent after e or E, the digits around the
\* decimal point, the scale the length of the fraction less the exponent.
from_str(s) ==
    LET e == Find(s, {"e", "E"})
        base_part == IF IsSome(e) THEN SubSeq(s, 1, Unwrap(e) - 1) ELSE s
        exp_text == IF IsSome(e) THEN SubSeq(s, Unwrap(e) + 1, Len(s)) ELSE <<>>
        exp == IF Len(exp_text) > 0 /\ exp_text[1] = "+" THEN Tail(exp_text) ELSE exp_text
        exponent_value == IF IsSome(e) THEN ParseInteger(exp) ELSE Parsed(0)
        dot == Find(base_part, {"."})
        digits == IF IsSome(dot)
                  THEN SubSeq(base_part, 1, Unwrap(dot) - 1)
                          \o SubSeq(base_part, Unwrap(dot) + 1, Len(base_part))
                  ELSE base_part
        decimal_offset == IF IsSome(dot) THEN Len(base_part) - Unwrap(dot) ELSE 0
        big_int == ParseInteger(digits)
    IN IF ~exponent_value.ok \/ base_part = <<>> \/ ~big_int.ok
       THEN ParseErr
       ELSE Parsed(BigDecimal(big_int.value, decimal_offset - exponent_value.value))

\* JSON values
Null == [json |-> "null"]

Str(text) == [json |-> "string", text |-> text]

Arr(items) == [json |-> "array", items |-> items]

\* impl Serialize
Balance_serialize(value) == Str(to_string(value))

OptionalBalance_serialize(value) ==
    IF IsNone(value) THEN Null ELSE Str(to_string(Unwrap(value)))

VecBalance_serialize(value) == Arr([i \in DOMAIN value |-> Str(to_string(value[i]))])

\* impl Deserialize
Balance_deserialize(wire) ==
    IF wire.json # "string" THEN ParseErr ELSE from_str(wire.text)

OptionalBalance_deserialize(wire) ==
    IF wire.json = "null" THEN Parsed(None)
    ELSE IF wire.json # "string" THEN ParseErr
    ELSE LET parsed == from_str(wire.text)
         IN IF parsed.ok THEN Parsed(Some(parsed.value)) ELSE ParseErr

\* filter_map in place of collect::<Result<..>>: the strings that do not parse
\* are left out.
VecBalance_deserialize_Lenient(wire) ==
    IF wire.json # "array" \/ \E i \in DOMAIN wire.items : wire.items[i].json # "string"
    THEN ParseErr
    ELSE LET parsed == [i \in DOMAIN wire.items |-> from_str(wire.items[i].text)]
             Ok(q) == q.ok
             kept == SelectSeq(parsed, Ok)
         IN Parsed([i \in DOMAIN kept |-> kept[i].value])

VecBalance_deserialize(wire) ==
    IF wire.json # "array" \/ \E i \in DOMAIN wire.items : wire.items[i].json # "string"
    THEN ParseErr
    ELSE LET parsed == [i \in DOMAIN wire.items |-> from_str(wire.items[i].text)]
         IN IF \E i \in DOMAIN parsed : ~parsed[i].ok
            THEN ParseErr
            ELSE Parsed([i \in DOMAIN parsed |-> parsed[i].value])

Forms == {"Balance", "OptionalBalance", "VecBalance"}

serialize(form, value) ==
    CASE form = "Balance" -> Balance_serialize(value)
      [] form = "OptionalBalance" -> OptionalBalance_serialize(value)
      [] form = "VecBalance" -> VecBalance_serialize(value)

deserialize(form, wire) ==
    CASE form = "Balance" -> Balance_deserialize(wire)
      [] form = "OptionalBalance" -> OptionalBalance_deserialize(wire)
      [] form = "VecBalance" -> VecBalance_deserialize(wire)

\* The values of a form.
Values(form) ==
    CASE form = "Balance" -> BigDecimals
      [] form = "OptionalBalance" -> {None} \cup {Some(d) : d \in BigDecimals}
      [] form = "VecBalance" -> UNION {[1..n -> BigDecimals] : n \in 0..MaxBalances}

\* Texts that are no decimal numeral, and texts that are one.
Unparsable ==
    {<<>>, <<"x">>, <<"-">>, <<".">>, <<"1", "e">>, <<"1", ".", "2", ".", "3">>,
     <<"1", "-", "2">>, <<"e", "2">>}

Numerals ==
    {<<"7">>, <<"0", "0", "7">>, <<"+", "5">>, <<"1", ".">>, <<".", "5">>,
     <<"1", "e", "2">>, <<"1", "2", "E", "-", "1">>, <<"-", "0", ".", "0", "5">>}

\* The JSON values that can reach a form from outside.
Wires(form) ==
    LET strings == {Str(t) : t \in Unparsable \cup Numerals} IN
    CASE form = "Balance" -> strings \cup {Null}
      [] form = "OptionalBalance" -> strings \cup {Null}
      [] form = "VecBalance" -> {Arr(items) : items \in UNION {[1..n -> strings] : n \in 0..MaxBalances}}

CodecInit ==
    /\ store = [u \in Tables |-> <<>>]
    /\ req = NoRequest
    /\ resp = NoResponse
    /\ queries = <<>>
    /\ window = <<>>
    /\ fetched = "none"
    /\ caller = NoCaller
    /\ snapshot = NoSnapshot
    /\ history = <<>>
    /\ codec = NoCodec
    /\ pool = NoPool

beside == <<store, req, resp, queries, window, fetched, caller, snapshot, history, pool>>

\* A value of the program is to be written.
Value ==
    /\ codec = NoCodec
    /\ \E form \in Forms : \E value \in Values(form) :
         codec' = [form |-> form, phase |-> "value", from |-> "value", value |-> value]
    /\ UNCHANGED beside

Serialize ==
    /\ codec # NoCodec
    /\ codec.phase = "value"
    /\ codec' = [form |-> codec.form, phase |-> "wire", from |-> "value",
                 value |-> codec.value, wire |-> serialize(codec.form, codec.value)]
    /\ UNCHANGED beside

\* A JSON value comes in from outside.
Wire ==
    /\ codec = NoCodec
    /\ \E form \in Forms : \E wire \in Wires(form) :
         codec' = [form |-> form, phase |-> "wire", from |-> "wire", wire |-> wire]
    /\ UNCHANGED beside

Deserialize ==
    /\ codec # NoCodec
    /\ codec.phase = "wire"
    /\ codec' = [codec EXCEPT !.phase = "read"] @@
                    [result |-> deserialize(codec.form, codec.wire)]
    /\ UNCHANGED beside

CodecNext == Value \/ Serialize \/ Wire \/ Deserialize

CodecSpec == CodecInit /\ [][CodecNext]_vars

(***************************************************************************)
(* C18.  In each of the three forms a value that is serialized and then    *)
(* deserialized comes back as the value it was: the same number in every   *)
(* place (the same unscaled integer and scale when the scale is not        *)
(* negative), an absent value absent, a sequence of the same length in the *)
(* same order.  A JSON value with a string that is no decimal numeral      *)
(* fails to deserialize as a whole.                                        *)
(***************************************************************************)
\* The same number: the unscaled integers agree at a common scale.
SameNumber(a, b) ==
    a.int_val * Pow10(b.scale - a.scale) = b.int_val * Pow10(a.scale - b.scale)

SameValue(form, a, b) ==
    CASE form = "Balance" -> SameNumber(a, b)
      [] form = "OptionalBalance" ->
            /\ IsNone(a) <=> IsNone(b)
            /\ IsSome(a) => SameNumber(Unwrap(a), Unwrap(b))
      [] form = "VecBalance" ->
            /\ Len(a) = Len(b)
            /\ \A i \in DOMAIN a : SameNumber(a[i], b[i])

Read == codec # NoCodec /\ codec.phase = "read"

\* The decimals of a value.
Decimals(form, value) ==
    CASE form = "Balance" -> {value}
      [] form = "OptionalBalance" -> Range(value)
      [] form = "VecBalance" -> Range(value)

\* The strings of a JSON value.
Strings(wire) ==
    CASE wire.json = "string" -> {wire.text}
      [] wire.json = "array" ->
            {wire.items[i].text : i \in {j \in DOMAIN wire.items : wire.items[j].json = "string"}}
      [] OTHER -> {}

C18_DecimalRoundTrip ==
    Read =>
        /\ codec.from = "value" =>
              /\ codec.result.ok
              /\ SameValue(codec.form, codec.value, codec.result.value)
              /\ (\A d \in Decimals(codec.form, codec.value) : d.scale >= 0) =>
                    codec.result.value = codec.value
        /\ (codec.from = "wire" /\ Strings(codec.wire) \cap Unparsable # {}) =>
              ~codec.result.ok
        /\ (codec.from = "wire" /\ codec.form = "VecBalance"
                /\ Strings(codec.wire) \subseteq Numerals) =>
              /\ codec.result.ok
              /\ Len(codec.result.value) = Len(codec.wire.items)

\* A sequence of a negative fraction with zeros after the point and a multiple
\* of ten has gone through the codec.
C18_Witness ==
    /\ Read
    /\ codec.from = "value"
    /\ codec.form = "VecBalance"
    /\ codec.value = <<BigDecimal(-5, 2), BigDecimal(12, -1)>>
    /\ codec.wire = Arr(<<Str(<<"-", "0", ".", "0", "5">>), Str(<<"1", "2", "0">>)>>)
    /\ codec.result = Parsed(<<BigDecimal(-5, 2), BigDecimal(120, 0)>>)

\* ---------------------------------------------------------------------------
\* C19.  The statement of any endpoint is only ever issued with a window size
\* in [1, 50]: whatever integer `blocks` is, either the request is rejected
\* before the store is touched or the limit bound to the statement satisfies
\* 1 <= limit <= 50.
C19_LimitWithinOneToFifty ==
    \A i \in DOMAIN queries :
        /\ 1 <= queries[i].limit
        /\ queries[i].limit <= MAX_BLOCKS_PER_REQUEST

(***************************************************************************)
(* Requests while the tables grow.  The indexer commits batches of rows to *)
(* a table while a handler runs.  A handler issues one statement; the      *)
(* storage evaluates a statement, CTE and outer SELECT alike, on the rows  *)
(* committed when the statement began.                                     *)
(***************************************************************************)
\* Most rows of a table that grows, most rows of one commit, and the greatest
\* timestamp of its rows.
MaxStreamRows == 3

MaxBatch == 2

MaxStreamTs == 2

\* Most rows of such a table that differ from the values requests ask for.
MaxStreamMismatch == 1

\* The query strings of the requests made while the table grows.
StreamQueries ==
    [start_block_timestamp_nanosec : {None, Some(EpochNanos(2))},
     blocks : {Some(2), Some(MAX_BLOCKS_PER_REQUEST + 1)}]

\* The rows one commit adds to a table: ingested in order, after its last row.
Batches(table, rows) ==
    LET last == IF rows = <<>> THEN 1 ELSE rows[Len(rows)].timestamp
        odd == Cardinality({i \in DOMAIN rows : Mismatches(table, rows[i]) > 0})
    IN UNION {{[i \in 1..n |-> v[i] @@ [timestamp |-> ts[i],
                                        receipt_id |-> Len(rows) + i]] :
                  v \in {w \in [1..n -> RowValues(table)] :
                            odd + Cardinality({i \in 1..n : Mismatches(table, w[i]) > 0})
                                <= MaxStreamMismatch},
                  ts \in {t \in [1..n -> last..MaxStreamTs] :
                             \A i \in 1..(n - 1) : t[i] <= t[i + 1]}} :
              n \in 1..Min(MaxBatch, MaxStreamRows - Len(rows))}

\* The handler of the request has not got the Result of its statement yet.
InFlight == req # NoRequest /\ resp = NoResponse /\ fetched = "none"

\* The outer SELECT reads the table as it is when the rows are fetched.
Visible_Later(taken, now) == now

\* The rows the outer SELECT of the statement reads, of the rows `taken` when
\* the statement began and the rows the table holds `now`: the statement is
\* one, and its outer SELECT reads what its CTE reads.
Visible(taken, now) == taken

StreamInit ==
    /\ store = [u \in Tables |-> <<>>]
    /\ req = NoRequest
    /\ resp = NoResponse
    /\ queries = <<>>
    /\ window = <<>>
    /\ fetched = "none"
    /\ caller = NoCaller
    /\ snapshot = NoSnapshot
    /\ history = <<>>
    /\ codec = NoCodec
    /\ pool = NoPool

\* The indexer commits a batch of rows to a table.
Commit ==
    /\ \E table \in Tables :
         /\ \A u \in Tables \ {table} : store[u] = <<>>
         /\ req # NoRequest => req.endpoint = table
         /\ Len(store[table]) < MaxStreamRows
         /\ \E batch \in Batches(table, store[table]) :
              /\ store' = [store EXCEPT ![table] = @ \o batch]
              /\ history' = IF InFlight THEN Append(history, store'[table]) ELSE history
    /\ UNCHANGED <<req, resp, queries, window, fetched, caller, snapshot, codec, pool>>

\* The handler is entered: the query string is read and blocks is checked.
Receive ==
    /\ \E endpoint \in Tables :
         /\ Addressed(endpoint)
         /\ \E query \in StreamQueries, filter \in Filters(endpoint) :
              /\ req' = Request(endpoint, query, filter)
              /\ IF TooManyBlocks(PaginationInfo(query).blocks)
                 THEN BadRequest
                 ELSE /\ resp' = NoResponse
                      /\ queries' = <<>>
                      /\ window' = <<>>
                      /\ fetched' = "none"
              /\ history' = <<store[endpoint]>>
    /\ UNCHANGED <<store, caller, snapshot, codec, pool>>

\* fetch_all hands the statement to the storage, which begins it.
Execute ==
    /\ InFlight
    /\ queries = <<>>
    /\ queries' = <<Statement(req.endpoint, req.start, req.blocks)>>
    /\ snapshot' = Some(store[req.endpoint])
    /\ UNCHANGED <<store, req, resp, window, fetched, caller, history, codec, pool>>

\* The statement ends and the handler responds with its Result.
Complete ==
    /\ InFlight
    /\ queries # <<>>
    /\ \E out \in fetch_all(req.start, req.blocks,
                            {r \in Range(Unwrap(snapshot)) :
                                blocks_where(req.endpoint, req.filter, r)},
                            {r \in Range(Visible(Unwrap(snapshot), store[req.endpoint])) :
                                rows_where(req.endpoint, req.filter, r)}) :
         /\ window' = out.blocks
         /\ fetched' = IF out.ok THEN "Ok" ELSE "Err"
         /\ Respond(req.endpoint, out)
    /\ UNCHANGED <<store, req, queries, caller, snapshot, history, codec, pool>>

\* The task of the request ends.
Close ==
    /\ req # NoRequest
    /\ ~InFlight
    /\ req' = NoRequest
    /\ resp' = NoResponse
    /\ queries' = <<>>
    /\ window' = <<>>
    /\ fetched' = "none"
    /\ snapshot' = NoSnapshot
    /\ history' = <<>>
    /\ UNCHANGED <<store, caller, codec, pool>>

StreamNext == Commit \/ Receive \/ Execute \/ Complete \/ Close

StreamSpec == StreamInit /\ [][StreamNext]_vars

\* What the request in hand gets of the table when it holds `rows` and stays so.
AtRest(rows) ==
    {out \in fetch_all(req.start, req.blocks,
                       {r \in Range(rows) : blocks_where(req.endpoint, req.filter, r)},
                       {r \in Range(rows) : rows_where(req.endpoint, req.filter, r)}) :
        out.ok}

\* ---------------------------------------------------------------------------
\* C20.  The window and the rows come from one statement: whatever the
\* indexer commits while a request runs, a successful response is the window
\* and the rows of that window computed on one state the table was in between
\* the start of the request and its completion, never a window of one state
\* with rows of a later one.
C20_OneStateOfTheStore ==
    (Succeeded /\ fetched = "Ok") =>
        \E i \in DOMAIN history : \E out \in AtRest(history[i]) :
            /\ window = out.blocks
            /\ resp.events = JsonArray(out.rows)

\* A commit between the beginning of the statement and its end added a row to
\* a block of the window and a block after it; the response holds neither.
C20_Witness ==
    /\ Succeeded /\ fetched = "Ok"
    /\ req.blocks = 2
    /\ Len(history) >= 2
    /\ Len(resp.events) = 1
    /\ Len(Unwrap(snapshot)) = 1
    /\ Len(store[req.endpoint]) = 3
    /\ store[req.endpoint][2].timestamp = store[req.endpoint][1].timestamp
    /\ store[req.endpoint][3].timestamp > store[req.endpoint][1].timestamp
    /\ \A r \in Range(store[req.endpoint]) : Satisfies(req.endpoint, req.filter, r)
    /\ EpochNanos(store[req.endpoint][1].timestamp) >= req.start

(***************************************************************************)
(* A request made again after the table has grown.  The indexer appends    *)
(* events in block order: every event it adds is later than every event    *)
(* the table holds.  Nothing is changed or deleted.                        *)
(***************************************************************************)
\* The greatest timestamp of a table that has grown.
MaxGrownTs == 3

\* The query strings of the requests made again.
GrowQueries ==
    [start_block_timestamp_nanosec : {None, Some(EpochNanos(2))},
     blocks : {Some(0), Some(1), Some(2)}]

\* Most events added to a table that differ from the values requests ask for.
MaxGrownMismatch == 1

\* The column values an event added to the rows of the table can have.
Added(table, rows) ==
    {v \in RowValues(table) :
        Mismatches(table, v) > 0 =>
            Cardinality({i \in DOMAIN rows : Mismatches(table, rows[i]) > 0})
                < MaxGrownMismatch}

\* The timestamps an event added to the rows can have.
Later(rows) ==
    {t \in 1..MaxGrownTs : \A i \in DOMAIN rows : rows[i].timestamp < t}

\* A handler answers a request; the rows its table held are kept aside.
Ask ==
    /\ \E endpoint \in Tables :
         /\ Addressed(endpoint)
         /\ \E query \in GrowQueries, filter \in Filters(endpoint) :
              handler(endpoint, query, filter, store[endpoint])
         /\ snapshot' = Some(store[endpoint])
    /\ UNCHANGED <<store, caller, history, codec, pool>>

\* The indexer appends an event to the table of the request that was answered.
Grow ==
    /\ Succeeded
    /\ \E v \in Added(req.endpoint, store[req.endpoint]),
          t \in Later(store[req.endpoint]) :
         store' = [store EXCEPT ![req.endpoint] =
                      Append(@, v @@ [timestamp |-> t, receipt_id |-> Len(@) + 1])]
    /\ UNCHANGED <<req, resp, queries, window, fetched, caller, snapshot, history, codec, pool>>

GrowNext == Ask \/ Grow \/ Close

GrowSpec == Init /\ [][GrowNext]_vars

\* The table of the request has grown since the request was answered.
Grown == Succeeded /\ Len(store[req.endpoint]) > Len(Unwrap(snapshot))

\* The response held as many distinct timestamps as the request asked blocks.
FullResponse == Succeeded /\ Cardinality(ReturnedTimestamps) = req.blocks

\* ---------------------------------------------------------------------------
\* C21.  When the table changes only by events later than every event it
\* holds, a request whose response held exactly `blocks` distinct timestamps
\* gets the same events when it is made again, however many events were
\* added; only a response with fewer distinct timestamps than `blocks` can
\* gain events.
C21_FullResponseIsFinal ==
    Grown =>
        \A out \in Reissued :
            out.ok =>
                /\ Range(resp.events) \subseteq Range(JsonArray(out.rows))
                /\ FullResponse =>
                      /\ Range(JsonArray(out.rows)) = Range(resp.events)
                      /\ Len(out.rows) = Len(resp.events)

\* A response of two blocks to a request for two, and the table has since got
\* an event the request would have taken.
C21_Witness ==
    /\ Grown
    /\ FullResponse
    /\ req.blocks = 2
    /\ LET added == store[req.endpoint][Len(store[req.endpoint])]
       IN /\ Satisfies(req.endpoint, req.filter, added)
          /\ EpochNanos(added.timestamp) >= req.start

(***************************************************************************)
(* The connection pool.  The handlers share one PgPool, cloned into the    *)
(* state of every worker, and use it only as the executor of fetch_all:    *)
(* fetch_all waits for a connection of the pool, runs the statement on it  *)
(* and gives the connection back before it returns its Result, Ok or Err.  *)
(* A handler calls fetch_all after it has checked `blocks`.                *)
(***************************************************************************)
\* The requests in progress at once, and the connections of the pool.
MaxTasks == 3

PoolSize == 2

Tasks == 1..MaxTasks

\* The endpoints and the `blocks` of the requests that share the pool.
PoolEndpoints == {"nft_mint", "trade_pool"}

PoolBlocks == {default_blocks_per_request, MAX_BLOCKS_PER_REQUEST + 1}

Idle == [pc |-> "idle"]

\* The task of a request: where its handler is, whether it has had a
\* connection, the Result of fetch_all and the status it answered with.
Task(endpoint, blocks, pc, acquired, ok, status) ==
    [pc |-> pc, endpoint |-> endpoint, blocks |-> blocks, acquired |-> acquired,
     ok |-> ok, status |-> status]

\* The handler goes on to fetch_all whatever `blocks` is.
Proceeds_Always(blocks) == TRUE

\* The handler goes on to fetch_all: it has not returned BadRequest.
Proceeds(blocks) == ~TooManyBlocks(blocks)

\* The status the handler of the endpoint ends with on the Result of fetch_all:
\* 0 when it panics on unwrap and gives no response.
StatusOf(endpoint, ok) ==
    IF ok THEN 200 ELSE IF endpoint \in NftEndpoints THEN 0 ELSE 500

PoolInit ==
    /\ store = [u \in Tables |-> <<>>]
    /\ req = NoRequest
    /\ resp = NoResponse
    /\ queries = <<>>
    /\ window = <<>>
    /\ fetched = "none"
    /\ caller = NoCaller
    /\ snapshot = NoSnapshot
    /\ history = <<>>
    /\ codec = NoCodec
    /\ pool = [holders |-> {}, tasks |-> [t \in Tasks |-> Idle]]

served == <<store, req, resp, queries, window, fetched, caller, snapshot, history, codec>>

\* A handler is entered and checks `blocks`: it returns BadRequest, or calls
\* fetch_all on the pool.
Enter(t) ==
    /\ pool.tasks[t] = Idle
    /\ \E endpoint \in PoolEndpoints, blocks \in PoolBlocks :
         pool' = [pool EXCEPT !.tasks[t] =
                     IF Proceeds(blocks)
                     THEN Task(endpoint, blocks, "waiting", FALSE, FALSE, 0)
                     ELSE Task(endpoint, blocks, "answered", FALSE, FALSE, 400)]
    /\ UNCHANGED served

\* fetch_all gets a connection: one of the pool is not in use.
Acquire(t) ==
    /\ pool.tasks[t].pc = "waiting"
    /\ Cardinality(pool.holders) < PoolSize
    /\ pool' = [pool EXCEPT !.holders = @ \cup {t},
                            !.tasks[t].pc = "running",
                            !.tasks[t].acquired = TRUE]
    /\ UNCHANGED served

\* fetch_all gets no connection in time and returns Err.
TimedOut(t) ==
    /\ pool.tasks[t].pc = "waiting"
    /\ Cardinality(pool.holders) = PoolSize
    /\ pool' = [pool EXCEPT !.tasks[t].pc = "fetched", !.tasks[t].ok = FALSE]
    /\ UNCHANGED served

\* The statement ends, well or not: fetch_all gives the connection back and
\* returns its Result.
Fetched(t) ==
    /\ pool.tasks[t].pc = "running"
    /\ \E ok \in BOOLEAN :
         pool' = [pool EXCEPT !.holders = @ \ {t},
                              !.tasks[t].pc = "fetched",
                              !.tasks[t].ok = ok]
    /\ UNCHANGED served

\* The handler answers on the Result, or panics on it.
Answer(t) ==
    /\ pool.tasks[t].pc = "fetched"
    /\ pool' = [pool EXCEPT !.tasks[t].pc = "answered",
                            !.tasks[t].status =
                                StatusOf(pool.tasks[t].endpoint, pool.tasks[t].ok)]
    /\ UNCHANGED served

\* The task of the request ends.
Ended(t) ==
    /\ pool.tasks[t] # Idle
    /\ pool.tasks[t].pc = "answered"
    /\ pool' = [pool EXCEPT !.tasks[t] = Idle]
    /\ UNCHANGED served

PoolNext ==
    \E t \in Tasks :
        \/ Enter(t)
        \/ Acquire(t)
        \/ TimedOut(t)
        \/ Fetched(t)
        \/ Answer(t)
        \/ Ended(t)

PoolSpec == PoolInit /\ [][PoolNext]_vars

\* The requests in progress.
Busy == {t \in Tasks : pool.tasks[t] # Idle}

\* ---------------------------------------------------------------------------
\* C22.  However the requests that share the pool interleave: a request that
\* validation rejects never gets a connection; a request that got one has
\* given it back when it ends, whether its statement succeeded or failed, the
\* panic of the nft handlers included; and the connections in use are never
\* more than the pool has.
C22_PoolDiscipline ==
    /\ \A t \in Busy :
         /\ TooManyBlocks(pool.tasks[t].blocks) =>
               /\ ~pool.tasks[t].acquired
               /\ t \notin pool.holders
         /\ pool.tasks[t].pc \in {"fetched", "answered"} => t \notin pool.holders
         /\ t \in pool.holders <=> pool.tasks[t].pc = "running"
    /\ pool.holders \subseteq Busy
    /\ Cardinality(pool.holders) <= PoolSize

\* While one request holds a connection, an nft request that had one has
\* panicked on a failed statement and another request was rejected.
C22_Witness ==
    \E t, u \in Busy :
        /\ pool.tasks[t].endpoint \in NftEndpoints
        /\ pool.tasks[t].pc = "answered"
        /\ pool.tasks[t].acquired
        /\ ~pool.tasks[t].ok
        /\ pool.tasks[t].status = 0
        /\ pool.tasks[u].status = 400
        /\ pool.holders # {}

====
